---- MODULE Spec2Model ----
(***************************************************************************)
(* CLI authentication of harness/determined: the login resolution done by  *)
(* constructing authentication.Authentication and the logout done by       *)
(* `det user logout`, driven the way tests/cli/test_auth.py drives them    *)
(* (environment, MockTokenStore, mocked _is_token_valid / getpass /        *)
(* do_login), with every mock interaction recorded in `calls`; the         *)
(* TokenStore's auth.json file; and the on-cluster harness entry point     *)
(* determined/exec/harness.py, whose calls are recorded in `hlog`.         *)
(***************************************************************************)
EXTENDS Naturals, Sequences, FiniteSets

\* Python's None.
None == "<None>"

\* The most container addresses and slot ids of a task.
MaxAddrs == 2
MaxSlots == 2

\* How many set_token calls one TokenStore makes on auth.json.
MaxSets == 2

\* How many times one scenario is set up and run (the test runs a scenario once
\* per scenario set that contains it, each time with a fresh environment).
MaxRuns == 2

VARIABLES
    test,          \* "login" (test_login_scenarios) or "logout" (test_logout)
    req_user,      \* -u / requested_user
    req_pass,      \* requested password
    env_user,      \* DET_USER
    env_pass,      \* DET_PASS
    env_token,     \* DET_USER_TOKEN
    cache,         \* Login scenario's cache field: "cache", "expired" or None
    store0,        \* the token store as the scenario configures it
    store,         \* the token store now: [tokens, active]
    pc,            \* position inside the operation under test
    session_user,  \* local of _init_session / logout
    password,      \* local of _init_session
    token,         \* local of _init_session / logout
    calls,         \* every mock interaction so far, in order
    session,       \* auth.session, NoSession until constructed
    test_ok,       \* "pending", then the verdict of the test's assertions
    run,           \* 1..MaxRuns: which run of this scenario
    first,         \* calls and session of the scenario's first run
    \* test_auth_json_v0_upgrade: a TokenStore on an auth.json file
    auth_json,     \* the JSON object in the file auth.json
    master,        \* the master URL the first TokenStore is made for
    ts,            \* the first TokenStore: [master_address, active_user, tokens]
    ts2,           \* a TokenStore constructed after the set_token calls
    fpc,           \* position in the upgrade test
    written,       \* the set_token calls made so far: <<user, token>>, in order
    \* determined.exec.harness.main
    info_state,    \* "ok", "none" (not on-cluster) or "not_trial" (task_type)
    has_pytorch,   \* hasattr(det, "pytorch")
    is_pytorch_trial, \* issubclass(trial_class, det.pytorch.PyTorchTrial)
    debug,         \* info.trial._debug
    use_horovod,   \* distributed_backend.use_horovod()
    use_deepspeed, \* distributed_backend.use_deepspeed()
    use_torch,     \* distributed_backend.use_torch()
    n_addrs,       \* len(info.container_addrs)
    n_slots,       \* len(info.slot_ids)
    container_rank, \* info.container_rank
    hpc,           \* position in main / _run_pytorch_trial
    path,          \* "none", then "legacy" or "pytorch"
    hlog,          \* the calls made so far, each with how it ended
    dump_scheduled, \* faulthandler has a periodic traceback dump scheduled
    core_open,     \* inside the with core.init(...) block
    pytorch_open,  \* inside the with pytorch.init(...) block
    distributed,   \* the local `distributed` of main, "unset" before step 3
    exc,           \* the exception being raised, None if none
    result         \* "running", "returned 0", or the exception main ended with

file_vars == <<auth_json, master, ts, ts2, fpc, written>>

info_vars == <<info_state, has_pytorch, is_pytorch_trial, debug, use_horovod,
               use_deepspeed, use_torch, n_addrs, n_slots, container_rank>>

harness_vars == <<info_vars, hpc, path, hlog, dump_scheduled, core_open,
                  pytorch_open, distributed, exc, result>>

\* What the authentication scenarios leave alone.
other_vars == <<file_vars, harness_vars>>

auth_vars == <<test, req_user, req_pass, env_user, env_pass, env_token, cache, store0,
          store, pc, session_user, password, token, calls, session, test_ok,
          run, first>>

vars == <<auth_vars, other_vars>>

scenario_vars == <<test, req_user, req_pass, env_user, env_pass, env_token, cache,
                   store0>>

\* ---------------------------------------------------------------- scenarios

\* class Login(ScenarioSet): the options of each field.
Login_req_user == [y |-> "user", n |-> None]
Login_req_pass == [y |-> "req_pass", n |-> None]
Login_env_user == [y |-> "user", e |-> "extra", n |-> None]
Login_env_pass == [y |-> "env_pass", n |-> None]
Login_env_token == [y |-> "env_token", n |-> None]
Login_cache == [y |-> "cache", x |-> "expired", n |-> None]

\* class Logout(ScenarioSet): the options of each field.
Logout_user_explicit == [y |-> "req_user", n |-> None]
Logout_user_in_env == [y |-> "env_user", n |-> None]
Logout_user_in_cache == [y |-> "cache_user", n |-> None]

Range(f) == {f[k] : k \in DOMAIN f}

LoginUsers == {"user", "extra", "determined"}
LogoutUsers == {"req_user", "env_user", "cache_user"}
Users == LoginUsers \cup LogoutUsers

DEFAULT_DETERMINED_USER == "determined"
DEFAULT_DETERMINED_PASSWORD == ""

\* ------------------------------------------------------------------- mocks

\* def getpass(*_): return "prompt_pass"
getpass == "prompt_pass"

IsTokenValidNoCache(t) == t \in {"env_token"}

IsTokenValidAlways(t) == TRUE

\* def _is_token_valid(master_url, token, cert): return token in ["cache", "env_token"]
is_token_valid(t) == t \in {"cache", "env_token"}

\* def do_login(*_): return "new"
do_login(u, p) == "new"

\* ------------------------------------------- environment and arguments

DetUserUnset == None

\* util.setenv_optional("DET_USER", scenario.env_user)
DET_USER == env_user

DetPassUnset == None

\* util.setenv_optional("DET_PASS", scenario.env_pass)
DET_PASS == env_pass

DetUserTokenUnset == None

\* util.setenv_optional("DET_USER_TOKEN", scenario.env_token)
DET_USER_TOKEN == env_token

\* authentication.Authentication("master_url", scenario.req_user,
\*                               scenario.req_pass, None)
Authentication_requested_user == req_user

AuthenticationPasswordFromEnv == env_pass

Authentication_password == req_pass

LogoutCmdWithoutUser == None

\* cmd = ["-u", "req_user", "user", "logout"] if scenario.user_explicit,
\* else ["user", "logout"]
Logout_cmd_user == req_user

\* ---------------------------------------------------------- MockTokenStore

LoginTokenStoreActiveFromEnv(c) ==
    [tokens |-> [u \in Users |-> IF u \in LoginUsers THEN c ELSE None],
     active |-> IF env_user # None THEN env_user
                ELSE IF c # None THEN "user" ELSE None]

LoginTokenStoreAlwaysActive(c) ==
    [tokens |-> [u \in Users |-> IF u \in LoginUsers THEN c ELSE None],
     active |-> "user"]

\* mts.get_token(u, retval=scenario.cache) for the three users, and
\* mts.get_active_user(retval=scenario.cache and "user").
LoginTokenStore(c) ==
    [tokens |-> [u \in Users |-> IF u \in LoginUsers THEN c ELSE None],
     active |-> IF c # None THEN "user" ELSE None]

\* GetToken.expect / GetActiveUser.expect: "cache_token" for a user in the cache,
\* "cache_user" as the active user.
LogoutTokenStores ==
    {[tokens |-> [u \in Users |-> IF u \in has THEN "cache_token" ELSE None],
      active |-> a] :
        has \in SUBSET LogoutUsers, a \in {"cache_user", None}}

TokenStoreKept == store

\* es.enter_context(util.MockTokenStore(...)): every run of a scenario gets a
\* freshly configured token store.
TokenStoreSetup == store0

\* ------------------------------------------------------------- TokenStore

get_active_user(s) == s.active

get_token(s, u) == s.tokens[u]

drop_user(s, u) ==
    [tokens |-> [s.tokens EXCEPT ![u] = None],
     active |-> IF s.active = u THEN None ELSE s.active]

set_token(s, u, t) == [s EXCEPT !.tokens[u] = t]

\* ------------------------------------------------------------------ calls

Call(op, a, b) == [op |-> op, a |-> a, b |-> b]
Check(t) == Call("Check", t, None)
DoLogin(u, p) == Call("DoLogin", u, p)
Use(u, t) == Call("Use", u, t)
GetToken(u) == Call("get_token", u, None)
DropUser(u) == Call("drop_user", u, None)
SetToken(u, t) == Call("set_token", u, t)
GetActiveUser == Call("get_active_user", None, None)
GetPass == Call("getpass", None, None)
PostLogout(t) == Call("POST /api/v1/auth/logout", "Bearer", t)

UsernameTokenPair(u, t) == [username |-> u, token |-> t]
NoSession == UsernameTokenPair(None, None)
NoOutcome == [calls |-> <<>>, session |-> NoSession]
Outcome == [calls |-> calls, session |-> session]

HasCall(c) == \E i \in 1..Len(calls) : calls[i] = c
HasOp(op) == \E i \in 1..Len(calls) : calls[i].op = op
Before(c, d) ==
    \E i, j \in 1..Len(calls) : i < j /\ calls[i] = c /\ calls[j] = d

\* -------------------------------------------------- TokenStore on auth.json

\* A JSON object is a function from its keys; {} has none.
EmptyDict == [k \in {} |-> None]
Get(d, k, default) == IF k \in DOMAIN d THEN d[k] ELSE default
Put(d, k, v) == [x \in DOMAIN d \cup {k} |-> IF x = k THEN v ELSE d[x]]

MOCK_MASTER_URL == "http://localhost:8080"
MasterUrls == {MOCK_MASTER_URL, "http://other:8080"}
OtherMaster(m) == CHOOSE o \in MasterUrls : o # m

FileUsers == {"determined", "bob"}
FileTokens == {"ai", "other.token"}

\* auth_v0.json as copied into the config dir: a version 0 file has no
\* "version" and no "masters", only the active user and the tokens.
AuthV0Files ==
    {[k \in {"tokens"} \cup (IF a = None THEN {} ELSE {"active_user"}) |->
         IF k = "tokens"
         THEN [u \in has |-> IF u = "determined" THEN "v2.public.this.is.a.test"
                             ELSE "bob.token"]
         ELSE a] :
        a \in FileUsers \cup {None}, has \in SUBSET FileUsers}

\* ts = authentication.TokenStore(MOCK_MASTER_URL, auth_json_path)
TsMasterAddress == master

Ts2OtherMaster == OtherMaster(master)

\* ts2 = authentication.TokenStore(MOCK_MASTER_URL, auth_json_path)
Ts2MasterAddress == master

\* v1 is v0 nested under "masters", keyed by the master address.
shim_store_v0(v0, m) == [version |-> 1, masters |-> [x \in {m} |-> v0]]

\* A file without "version" is a version 0 file and is read as its v1 form.
load_store_file(file, m) ==
    IF Get(file, "version", 0) = 0 THEN shim_store_v0(file, m) ELSE file

\* The TokenStore's view of the store: its own master's active user and tokens.
reconfigure_from_store(st, m) ==
    LET substore == Get(Get(st, "masters", EmptyDict), m, EmptyDict) IN
        [master_address |-> m,
         active_user |-> Get(substore, "active_user", None),
         tokens |-> Get(substore, "tokens", EmptyDict)]

TokenStore(file, m) == reconfigure_from_store(load_store_file(file, m), m)

TokenStore_get_active_user(t) == t.active_user

TokenStore_get_token(t, u) == Get(t.tokens, u, None)

\* set_token inside _persistent_store: the file is loaded again, the token is
\* put under this master's "tokens", and the whole store is written back.
StoreWithToken(file, m, u, t) ==
    LET st == load_store_file(file, m)
        masters == Get(st, "masters", EmptyDict)
        substore == Get(masters, m, EmptyDict)
        tokens == Get(substore, "tokens", EmptyDict)
    IN Put(st, "masters",
           Put(masters, m, Put(substore, "tokens", Put(tokens, u, t))))

NoTokenStore == [master_address |-> None, active_user |-> None, tokens |-> EmptyDict]

\* No upgrade test is running.
FileIdle ==
    /\ auth_json = EmptyDict
    /\ master = None
    /\ ts = NoTokenStore
    /\ ts2 = NoTokenStore
    /\ fpc = "idle"
    /\ written = <<>>

\* main is not running.
HarnessIdle ==
    /\ info_state = "none"
    /\ has_pytorch = FALSE /\ is_pytorch_trial = FALSE /\ debug = FALSE
    /\ use_horovod = FALSE /\ use_deepspeed = FALSE /\ use_torch = FALSE
    /\ n_addrs = 1 /\ n_slots = 1 /\ container_rank = 0
    /\ hpc = "idle"
    /\ path = "none"
    /\ hlog = <<>>
    /\ dump_scheduled = FALSE
    /\ core_open = FALSE
    /\ pytorch_open = FALSE
    /\ distributed = "unset"
    /\ exc = None
    /\ result = "running"

\* ------------------------------------------------------------------- Init

Init ==
    /\ test \in {"login", "logout"}
    /\ IF test = "login"
       THEN /\ req_user \in Range(Login_req_user)
            /\ req_pass \in Range(Login_req_pass)
            /\ env_user \in Range(Login_env_user)
            /\ env_pass \in Range(Login_env_pass)
            /\ env_token \in Range(Login_env_token)
            /\ cache \in Range(Login_cache)
            /\ store0 = LoginTokenStore(cache)
       ELSE /\ req_user \in Range(Logout_user_explicit)
            /\ req_pass = None
            /\ env_user \in Range(Logout_user_in_env)
            /\ env_pass \in Range(Login_env_pass)
            /\ env_token = None
            /\ cache = None
            /\ store0 \in LogoutTokenStores
    /\ store = store0
    /\ pc = "start"
    /\ session_user = None
    /\ password = None
    /\ token = None
    /\ calls = <<>>
    /\ session = NoSession
    /\ test_ok = "pending"
    /\ run = 1
    /\ first = NoOutcome
    /\ FileIdle
    /\ HarnessIdle

\* No authentication scenario is running.
AuthIdle ==
    /\ test = "idle"
    /\ req_user = None /\ req_pass = None
    /\ env_user = None /\ env_pass = None /\ env_token = None
    /\ cache = None
    /\ store0 = LoginTokenStore(None)
    /\ store = store0
    /\ pc = "idle"
    /\ session_user = None /\ password = None /\ token = None
    /\ calls = <<>>
    /\ session = NoSession
    /\ test_ok = "pending"
    /\ run = 1
    /\ first = NoOutcome

\* ------------------------------------------- default_load_user_password

\* An explicitly requested user wins, with the requested password; then
\* DET_USER/DET_PASS as a unit; last the token store's active user.
default_load_user_password(ru, rp, s) ==
    IF ru # None
    THEN [user |-> ru, password |-> rp, asked |-> FALSE]
    ELSE IF DET_USER # None /\ DET_PASS # None
    THEN [user |-> DET_USER, password |-> DET_PASS, asked |-> FALSE]
    ELSE [user |-> get_active_user(s), password |-> rp, asked |-> TRUE]

\* --------------------------------------- Authentication._init_session

\* session_user, password = default_load_user_password(...); for login the
\* user falls back to the default username.
LoginLoadUser ==
    /\ test = "login" /\ pc = "start"
    /\ LET r == default_load_user_password(Authentication_requested_user,
                                           Authentication_password, store) IN
        /\ session_user' = IF r.user = None THEN DEFAULT_DETERMINED_USER ELSE r.user
        /\ password' = r.password
        /\ calls' = IF r.asked THEN Append(calls, GetActiveUser) ELSE calls
    /\ pc' = "get_token"
    /\ UNCHANGED other_vars
    /\ UNCHANGED <<scenario_vars, store, token, session, test_ok, run, first>>

\* token = self.token_store.get_token(session_user)
LoginGetToken ==
    /\ test = "login" /\ pc = "get_token"
    /\ token' = get_token(store, session_user)
    /\ calls' = Append(calls, GetToken(session_user))
    /\ pc' = IF token' = None THEN "no_token" ELSE "check"
    /\ UNCHANGED other_vars
    /\ UNCHANGED <<scenario_vars, store, session_user, password, session, test_ok,
                   run, first>>

\* A cached token is checked with the master: a valid one is the session's
\* token, an invalid one is dropped from the token store.
LoginCheckToken ==
    /\ test = "login" /\ pc = "check"
    /\ IF is_token_valid(token)
       THEN /\ calls' = Append(calls, Check(token))
            /\ session' = UsernameTokenPair(session_user, token)
            /\ pc' = "assert"
            /\ UNCHANGED <<store, token>>
       ELSE /\ calls' = calls \o <<Check(token), DropUser(session_user)>>
            /\ store' = drop_user(store, session_user)
            /\ token' = None
            /\ pc' = "no_token"
            /\ UNCHANGED session
    /\ UNCHANGED other_vars
    /\ UNCHANGED <<scenario_vars, session_user, password, test_ok, run, first>>

\* The token of the container environment is usable when DET_USER and
\* DET_USER_TOKEN are set and no other user was explicitly requested.
EnvTokenUsable ==
    /\ DET_USER # None
    /\ DET_USER_TOKEN # None
    /\ Authentication_requested_user \in {None, DET_USER}

LoginUseEnvToken ==
    /\ test = "login" /\ pc = "no_token"
    /\ EnvTokenUsable
    /\ session_user' = DET_USER
    /\ token' = DET_USER_TOKEN
    /\ session' = UsernameTokenPair(DET_USER, DET_USER_TOKEN)
    /\ pc' = "assert"
    /\ UNCHANGED other_vars
    /\ UNCHANGED <<scenario_vars, store, password, calls, test_ok, run, first>>

\* The password to log in with: the one resolved so far, else the default
\* password for the default user, else the prompt's.
LoginPassword ==
    IF password # None THEN password
    ELSE IF session_user = DEFAULT_DETERMINED_USER THEN DEFAULT_DETERMINED_PASSWORD
    ELSE getpass

LoginDoLogin ==
    /\ test = "login" /\ pc = "no_token"
    /\ ~EnvTokenUsable
    /\ LET p == LoginPassword
           prompted == password = None /\ session_user # DEFAULT_DETERMINED_USER
           t == do_login(session_user, p)
       IN /\ password' = p
          /\ token' = t
          /\ calls' = (IF prompted THEN Append(calls, GetPass) ELSE calls)
                        \o <<DoLogin(session_user, p), SetToken(session_user, t)>>
          /\ store' = set_token(store, session_user, t)
          /\ session' = UsernameTokenPair(session_user, t)
    /\ pc' = "assert"
    /\ UNCHANGED other_vars
    /\ UNCHANGED <<scenario_vars, session_user, test_ok, run, first>>

\* ------------------------------------------------------------------ logout

\* session_user, _ = default_load_user_password(requested_user, None, store);
\* without a user, logout returns.
LogoutLoadUser ==
    /\ test = "logout" /\ pc = "start"
    /\ LET r == default_load_user_password(Logout_cmd_user, None, store) IN
        /\ session_user' = r.user
        /\ calls' = IF r.asked THEN Append(calls, GetActiveUser) ELSE calls
        /\ pc' = IF r.user = None THEN "assert" ELSE "get_token"
    /\ UNCHANGED other_vars
    /\ UNCHANGED <<scenario_vars, store, password, token, session, test_ok, run,
                   first>>

\* session_token = token_store.get_token(session_user); without one, logout
\* returns.
LogoutGetToken ==
    /\ test = "logout" /\ pc = "get_token"
    /\ token' = get_token(store, session_user)
    /\ calls' = Append(calls, GetToken(session_user))
    /\ pc' = IF token' = None THEN "assert" ELSE "drop"
    /\ UNCHANGED other_vars
    /\ UNCHANGED <<scenario_vars, store, session_user, password, session, test_ok,
                   run, first>>

\* The user is dropped from the token store and the logout request is sent
\* with the dropped token as Bearer.
LogoutDropAndPost ==
    /\ test = "logout" /\ pc = "drop"
    /\ store' = drop_user(store, session_user)
    /\ calls' = calls \o <<DropUser(session_user), PostLogout(token)>>
    /\ pc' = "assert"
    /\ UNCHANGED other_vars
    /\ UNCHANGED <<scenario_vars, session_user, password, token, session, test_ok,
                   run, first>>

\* -------------------------------------------------- test_login_scenarios

\* "*": one of every valid value of the field.
Any == {"y", "n", "e", "x"}

Pick(opts, keys) == {opts[k] : k \in keys \cap DOMAIN opts}

Login(ru, rp, eu, ep, et, c, expected) ==
    [req_user |-> Pick(Login_req_user, ru), req_pass |-> Pick(Login_req_pass, rp),
     env_user |-> Pick(Login_env_user, eu), env_pass |-> Pick(Login_env_pass, ep),
     env_token |-> Pick(Login_env_token, et), cache |-> Pick(Login_cache, c),
     expected |-> expected]

\* The parametrize list of test_login_scenarios, row for row.
LoginScenarioSets == <<
    Login({"y"}, {"y"}, {"n", "e"}, Any, Any, {"y"},
          <<Check("cache"), Use("user", "cache")>>),
    Login({"y"}, {"y"}, {"n", "e"}, Any, Any, {"n"},
          <<DoLogin("user", "req_pass"), Use("user", "new")>>),
    Login({"y"}, {"y"}, {"n", "e"}, Any, Any, {"x"},
          <<Check("expired"), DoLogin("user", "req_pass"), Use("user", "new")>>),
    Login({"y"}, {"n"}, {"n", "e"}, Any, Any, {"y"},
          <<Check("cache"), Use("user", "cache")>>),
    Login({"y"}, {"n"}, {"n", "e"}, Any, Any, {"n"},
          <<DoLogin("user", "prompt_pass"), Use("user", "new")>>),
    Login({"y"}, {"n"}, {"n", "e"}, Any, Any, {"x"},
          <<Check("expired"), DoLogin("user", "prompt_pass"), Use("user", "new")>>),
    Login({"y"}, {"y"}, {"y"}, Any, {"n"}, {"y"},
          <<Check("cache"), Use("user", "cache")>>),
    Login({"y"}, {"y"}, {"y"}, Any, {"n"}, {"n"},
          <<DoLogin("user", "req_pass"), Use("user", "new")>>),
    Login({"y"}, {"y"}, {"y"}, Any, {"n"}, {"x"},
          <<Check("expired"), DoLogin("user", "req_pass"), Use("user", "new")>>),
    Login({"y"}, {"y"}, {"y"}, {"y"}, {"y"}, {"y"},
          <<Check("cache"), Use("user", "cache")>>),
    Login({"y"}, {"y"}, {"y"}, {"y"}, {"y"}, {"x"},
          <<Check("expired"), Use("user", "env_token")>>),
    Login({"y"}, {"y"}, {"y"}, {"y"}, {"y"}, {"n"},
          <<Use("user", "env_token")>>),
    Login({"y"}, {"n"}, {"y"}, {"y"}, {"n"}, {"y"},
          <<Check("cache"), Use("user", "cache")>>),
    Login({"y"}, {"n"}, {"y"}, {"y"}, {"n"}, {"n"},
          <<DoLogin("user", "prompt_pass"), Use("user", "new")>>),
    Login({"y"}, {"n"}, {"y"}, {"y"}, {"n"}, {"x"},
          <<Check("expired"), DoLogin("user", "prompt_pass"), Use("user", "new")>>),
    Login({"y"}, {"n"}, {"y"}, {"n"}, {"n"}, {"y"},
          <<Check("cache"), Use("user", "cache")>>),
    Login({"y"}, {"n"}, {"y"}, {"n"}, {"n"}, {"n"},
          <<DoLogin("user", "prompt_pass"), Use("user", "new")>>),
    Login({"y"}, {"n"}, {"y"}, {"n"}, {"n"}, {"x"},
          <<Check("expired"), DoLogin("user", "prompt_pass"), Use("user", "new")>>),
    Login(Any, Any, {"y"}, Any, {"y"}, {"y"},
          <<Check("cache"), Use("user", "cache")>>),
    Login({"y"}, Any, {"y"}, Any, {"y"}, {"n"},
          <<Use("user", "env_token")>>),
    Login({"n"}, Any, {"y"}, Any, {"y"}, {"n"},
          <<Use("user", "env_token")>>),
    Login({"n"}, Any, {"y"}, Any, {"y"}, {"x"},
          <<Check("expired"), Use("user", "env_token")>>),
    Login({"n"}, Any, {"y"}, Any, {"y"}, {"y"},
          <<Check("cache"), Use("user", "cache")>>),
    Login({"n"}, Any, {"e"}, {"n"}, {"y"}, {"y"},
          <<Check("cache"), Use("user", "cache")>>),
    Login({"n"}, Any, {"e"}, {"y"}, {"y"}, {"y"},
          <<Check("cache"), Use("extra", "cache")>>),
    Login({"n"}, Any, {"y"}, {"y"}, {"n"}, {"y"},
          <<Check("cache"), Use("user", "cache")>>),
    Login({"n"}, Any, {"y"}, {"y"}, {"n"}, {"n"},
          <<DoLogin("user", "env_pass"), Use("user", "new")>>),
    Login({"n"}, Any, {"y"}, {"y"}, {"n"}, {"x"},
          <<Check("expired"), DoLogin("user", "env_pass"), Use("user", "new")>>),
    Login({"n"}, {"n"}, Any, {"n"}, {"n"}, {"n"},
          <<DoLogin("determined", ""), Use("determined", "new")>>),
    Login({"n"}, {"n"}, Any, {"n"}, {"n"}, {"x"},
          <<Check("expired"), DoLogin("user", "prompt_pass"), Use("user", "new")>>),
    Login({"n"}, {"n"}, Any, {"n"}, {"n"}, {"y"},
          <<Check("cache"), Use("user", "cache")>>),
    Login({"n"}, {"y"}, {"n"}, {"n"}, {"n"}, {"n"},
          <<DoLogin("determined", "req_pass"), Use("determined", "new")>>),
    Login({"n"}, {"y"}, {"y", "n"}, Any, Any, {"y"},
          <<Check("cache"), Use("user", "cache")>>)
>>

\* scenario_set.scenarios() yields the current scenario.
InLoginSet(set) ==
    /\ req_user \in set.req_user
    /\ req_pass \in set.req_pass
    /\ env_user \in set.env_user
    /\ env_pass \in set.env_pass
    /\ env_token \in set.env_token
    /\ cache \in set.cache

ExpectsOp(expected, op) == \E i \in 1..Len(expected) : expected[i].op = op

\* The assertions made after constructing Authentication: every expected call
\* was made, the session is the expected one, and no validity check or
\* do_login happened that the set does not expect.
LoginExpectationsMet(expected) ==
    /\ \A i \in 1..Len(expected) :
          IF expected[i].op = "Use"
          THEN session = UsernameTokenPair(expected[i].a, expected[i].b)
          ELSE HasCall(expected[i])
    /\ ExpectsOp(expected, "Check") \/ ~HasOp("Check")
    /\ ExpectsOp(expected, "DoLogin") \/ ~HasOp("DoLogin")

LoginSetsOfScenario ==
    {i \in 1..Len(LoginScenarioSets) : InLoginSet(LoginScenarioSets[i])}

AssertLogin ==
    /\ test = "login" /\ pc = "assert"
    /\ test_ok' = IF LoginSetsOfScenario = {} THEN "not in the table"
                  ELSE IF \A i \in LoginSetsOfScenario :
                            LoginExpectationsMet(LoginScenarioSets[i].expected)
                  THEN "pass" ELSE "fail"
    /\ pc' = "done"
    /\ UNCHANGED other_vars
    /\ UNCHANGED <<scenario_vars, store, session_user, password, token, calls,
                   session, run, first>>

\* ------------------------------------------------------------ test_logout

DoLogout(u) == Call("DoLogout", u, None)

Logout(explicit, in_env, in_cache, expected) ==
    [user_explicit |-> Pick(Logout_user_explicit, explicit),
     user_in_env |-> Pick(Logout_user_in_env, in_env),
     user_in_cache |-> Pick(Logout_user_in_cache, in_cache),
     expected |-> expected]

\* The parametrize list of test_logout, row for row.
LogoutScenarioSets == <<
    Logout({"y"}, Any, {"y"}, <<GetToken("req_user"), DoLogout("req_user")>>),
    Logout({"y"}, Any, {"n"}, <<GetToken("req_user")>>),
    Logout({"n"}, {"y"}, {"y"}, <<GetToken("env_user"), DoLogout("env_user")>>),
    Logout({"n"}, {"y"}, {"n"}, <<GetToken("env_user")>>),
    Logout({"n"}, {"n"}, {"y"},
           <<GetActiveUser, GetToken("cache_user"), DoLogout("cache_user")>>),
    Logout({"n"}, {"n"}, {"n"}, <<GetActiveUser>>)
>>

\* The token store the expectations configure for user_in_cache.
LogoutStoreOf(in_cache) ==
    [tokens |-> [u \in Users |->
                    IF u \in LogoutUsers /\ in_cache # None THEN "cache_token"
                    ELSE None],
     active |-> in_cache]

\* The scenario is one test_logout sets up: DET_PASS is set exactly when
\* DET_USER is, and the token store answers as user_in_cache says.
InLogoutSet(set) ==
    /\ req_user \in set.user_explicit
    /\ env_user \in set.user_in_env
    /\ env_pass = (IF env_user # None THEN "env_pass" ELSE None)
    /\ \E c \in set.user_in_cache : store0 = LogoutStoreOf(c)

\* What each expected result registers: token store calls, and for DoLogout
\* the logout request matched on "Bearer cache_token".
RECURSIVE ExpectedStoreCalls(_)
ExpectedStoreCalls(expected) ==
    IF expected = <<>> THEN <<>>
    ELSE (IF Head(expected).op = "DoLogout"
          THEN <<DropUser(Head(expected).a)>>
          ELSE <<Head(expected)>>) \o ExpectedStoreCalls(Tail(expected))

RECURSIVE ExpectedRequests(_)
ExpectedRequests(expected) ==
    IF expected = <<>> THEN <<>>
    ELSE (IF Head(expected).op = "DoLogout"
          THEN <<PostLogout("cache_token")>>
          ELSE <<>>) \o ExpectedRequests(Tail(expected))

IsRequest(c) == c.op = PostLogout(None).op
IsStoreCall(c) == ~IsRequest(c)

\* The strict MockTokenStore takes exactly the registered calls in order, and
\* the RequestsMock exactly the registered requests.
LogoutExpectationsMet(expected) ==
    /\ SelectSeq(calls, IsStoreCall) = ExpectedStoreCalls(expected)
    /\ SelectSeq(calls, IsRequest) = ExpectedRequests(expected)

LogoutSetsOfScenario ==
    {i \in 1..Len(LogoutScenarioSets) : InLogoutSet(LogoutScenarioSets[i])}

AssertLogout ==
    /\ test = "logout" /\ pc = "assert"
    /\ test_ok' = IF LogoutSetsOfScenario = {} THEN "not in the table"
                  ELSE IF \A i \in LogoutSetsOfScenario :
                            LogoutExpectationsMet(LogoutScenarioSets[i].expected)
                  THEN "pass" ELSE "fail"
    /\ pc' = "done"
    /\ UNCHANGED other_vars
    /\ UNCHANGED <<scenario_vars, store, session_user, password, token, calls,
                   session, run, first>>

\* ---------------------------------------------------------------- the loop

\* The same scenario comes up again (it is in another scenario set): the
\* environment and the token store are set up afresh and the operation runs
\* again.
Rerun ==
    /\ pc = "done"
    /\ run < MaxRuns
    /\ run' = run + 1
    /\ first' = IF run = 1 THEN Outcome ELSE first
    /\ store' = TokenStoreSetup
    /\ pc' = "start"
    /\ session_user' = None
    /\ password' = None
    /\ token' = None
    /\ calls' = <<>>
    /\ session' = NoSession
    /\ test_ok' = "pending"
    /\ UNCHANGED other_vars
    /\ UNCHANGED scenario_vars

Next ==
    \/ LoginLoadUser
    \/ LoginGetToken
    \/ LoginCheckToken
    \/ LoginUseEnvToken
    \/ LoginDoLogin
    \/ AssertLogin
    \/ LogoutLoadUser
    \/ LogoutGetToken
    \/ LogoutDropAndPost
    \/ AssertLogout
    \/ Rerun

Spec == Init /\ [][Next]_vars

\* The model of Authentication and logout passes the repository's own tests.
TestsPass == test_ok # "fail"

\* ---------------------------------------------- test_auth_json_v0_upgrade

InitFile ==
    /\ AuthIdle
    /\ HarnessIdle
    /\ auth_json \in AuthV0Files
    /\ master \in MasterUrls
    /\ ts = NoTokenStore
    /\ ts2 = NoTokenStore
    /\ fpc = "copied"
    /\ written = <<>>

\* ts = TokenStore(master, auth_json_path): the file is read, not written.
FileOpen ==
    /\ fpc = "copied"
    /\ ts' = TokenStore(auth_json, TsMasterAddress)
    /\ fpc' = "opened"
    /\ UNCHANGED <<auth_json, master, ts2, written>>
    /\ UNCHANGED <<auth_vars, harness_vars>>

\* ts.set_token(u, t)
FileSetToken(u, t) ==
    /\ fpc = "opened"
    /\ Len(written) < MaxSets
    /\ auth_json' = StoreWithToken(auth_json, ts.master_address, u, t)
    /\ ts' = reconfigure_from_store(auth_json', ts.master_address)
    /\ written' = Append(written, <<u, t>>)
    /\ UNCHANGED <<master, ts2, fpc>>
    /\ UNCHANGED <<auth_vars, harness_vars>>

\* ts2 = TokenStore(master, auth_json_path), after at least one set_token.
FileReopen ==
    /\ fpc = "opened"
    /\ written # <<>>
    /\ ts2' = TokenStore(auth_json, Ts2MasterAddress)
    /\ fpc' = "reopened"
    /\ UNCHANGED <<auth_json, master, ts, written>>
    /\ UNCHANGED <<auth_vars, harness_vars>>

NextFile ==
    \/ FileOpen
    \/ \E u \in FileUsers, t \in FileTokens : FileSetToken(u, t)
    \/ FileReopen

SpecFile == InitFile /\ [][NextFile]_vars

\* ------------------------------------------- determined/exec/harness.py

\* One call made by main: what was called, whether it returned or raised,
\* whether the core context was open when it was made, and an argument.
Ev(op, status, arg) == [op |-> op, status |-> status, core |-> core_open, arg |-> arg]

InitHarness ==
    /\ AuthIdle
    /\ FileIdle
    /\ info_state \in {"ok", "none", "not_trial"}
    /\ has_pytorch \in BOOLEAN
    /\ is_pytorch_trial \in BOOLEAN
    /\ is_pytorch_trial => has_pytorch
    /\ debug \in BOOLEAN
    /\ use_horovod \in BOOLEAN
    /\ use_deepspeed \in BOOLEAN
    /\ use_torch \in BOOLEAN
    /\ n_addrs \in 1..MaxAddrs
    /\ n_slots \in 0..MaxSlots
    /\ container_rank \in 0..(n_addrs - 1)
    /\ hpc = "start"
    /\ path = "none"
    /\ hlog = <<>>
    /\ dump_scheduled = FALSE
    /\ core_open = FALSE
    /\ pytorch_open = FALSE
    /\ distributed = "unset"
    /\ exc = None
    /\ result = "running"

\* A call that either returns, and main goes on at nxt, or raises, and the
\* exception unwinds to the innermost enclosing with block (or out of main).
Step(at, op, arg, nxt, unwind) ==
    /\ hpc = at
    /\ \E ok \in BOOLEAN :
          /\ hlog' = Append(hlog, Ev(op, IF ok THEN "returned" ELSE "raised", arg))
          /\ hpc' = IF ok THEN nxt ELSE unwind
          /\ exc' = IF ok THEN exc ELSE "Error"

\* info = det.get_cluster_info(), and the two assertions on it.
MainStart ==
    /\ hpc = "start"
    /\ hlog' = Append(hlog, Ev("det.get_cluster_info", "returned", None))
    /\ IF info_state = "ok"
       THEN hpc' = "certs" /\ exc' = exc
       ELSE hpc' = "end" /\ exc' = "AssertionError"
    /\ UNCHANGED <<info_vars, path, dump_scheduled, core_open, pytorch_open,
                   distributed, result>>
    /\ UNCHANGED <<auth_vars, file_vars>>

\* certs.cli_cert = certs.default_load(info.master_url)
LoadCerts ==
    /\ Step("certs", "certs.default_load", None, "load", "end")
    /\ UNCHANGED <<info_vars, path, dump_scheduled, core_open, pytorch_open,
                   distributed, result>>
    /\ UNCHANGED <<auth_vars, file_vars>>

\* trial_class = load.trial_class_from_entrypoint(train_entrypoint)
LoadTrialClass ==
    /\ Step("load", "load.trial_class_from_entrypoint", None, "analytics", "end")
    /\ UNCHANGED <<info_vars, path, dump_scheduled, core_open, pytorch_open,
                   distributed, result>>
    /\ UNCHANGED <<auth_vars, file_vars>>

\* On the chief container the analytics are sent; a failure is only logged.
SendAnalytics ==
    /\ hpc = "analytics"
    /\ IF container_rank = 0
       THEN \E ok \in BOOLEAN :
               hlog' = Append(hlog, Ev("analytics.send_analytics",
                                       IF ok THEN "returned" ELSE "raised", None))
       ELSE hlog' = hlog
    /\ hpc' = "dispatch"
    /\ UNCHANGED <<info_vars, path, dump_scheduled, core_open, pytorch_open,
                   distributed, exc, result>>
    /\ UNCHANGED <<auth_vars, file_vars>>

DispatchOnModuleOnly == has_pytorch

\* hasattr(det, "pytorch") and issubclass(trial_class, det.pytorch.PyTorchTrial)
DispatchToPytorch == has_pytorch /\ is_pytorch_trial

\* A PyTorchTrial is run by _run_pytorch_trial, any other trial by the rest
\* of main.
Dispatch ==
    /\ hpc = "dispatch"
    /\ IF DispatchToPytorch
       THEN path' = "pytorch" /\ hpc' = "set_logger"
       ELSE path' = "legacy" /\ hpc' = "env"
    /\ UNCHANGED <<info_vars, hlog, dump_scheduled, core_open, pytorch_open,
                   distributed, exc, result>>
    /\ UNCHANGED <<auth_vars, file_vars>>

\* env = det.EnvContext(...)
BuildEnvContext ==
    /\ Step("env", "det.EnvContext", None, "set_logger", "end")
    /\ UNCHANGED <<info_vars, path, dump_scheduled, core_open, pytorch_open,
                   distributed, result>>
    /\ UNCHANGED <<auth_vars, file_vars>>

\* det.common.set_logger(debug); logger.debug("Starting harness.")
SetLogger ==
    /\ hpc = "set_logger"
    /\ hlog' = Append(hlog, Ev("det.common.set_logger", "returned", None))
    /\ hpc' = "enter_stacktraces"
    /\ UNCHANGED <<info_vars, path, dump_scheduled, core_open, pytorch_open,
                   distributed, exc, result>>
    /\ UNCHANGED <<auth_vars, file_vars>>

\* maybe_periodic_stacktraces up to its yield: with debug enabled
\* faulthandler.dump_traceback_later(30, repeat=True) is called.
EnterStacktraces ==
    /\ hpc = "enter_stacktraces"
    /\ dump_scheduled' = (debug \/ dump_scheduled)
    /\ hlog' = IF debug
               THEN Append(hlog, Ev("faulthandler.dump_traceback_later", "returned", None))
               ELSE hlog
    /\ hpc' = IF path = "legacy" THEN "controller_class" ELSE "pytorch_init"
    /\ UNCHANGED <<info_vars, path, core_open, pytorch_open, distributed, exc,
                   result>>
    /\ UNCHANGED <<auth_vars, file_vars>>

\* Step 1: controller_class = load.get_trial_controller_class(trial_class)
GetTrialControllerClass ==
    /\ Step("controller_class", "load.get_trial_controller_class", None,
            "pre_execute_hook", "exit_stacktraces")
    /\ UNCHANGED <<info_vars, path, dump_scheduled, core_open, pytorch_open,
                   distributed, result>>
    /\ UNCHANGED <<auth_vars, file_vars>>

\* Step 2: distributed_backend = det._DistributedBackend();
\* controller_class.pre_execute_hook(env, distributed_backend)
PreExecuteHook ==
    /\ Step("pre_execute_hook", "controller_class.pre_execute_hook", None,
            "distributed", "exit_stacktraces")
    /\ UNCHANGED <<info_vars, path, dump_scheduled, core_open, pytorch_open,
                   distributed, result>>
    /\ UNCHANGED <<auth_vars, file_vars>>

Step3MultiSlotBoth ==
    IF use_horovod THEN "horovod"
    ELSE IF use_deepspeed THEN "deepspeed"
    ELSE IF use_torch THEN "torch"
    ELSE IF n_addrs > 1 /\ n_slots > 1 THEN "ValueError"
    ELSE None

\* Step 3: which DistributedContext is built: the backend's, in the order
\* horovod, deepspeed, torch; without a backend a multi-slot task is an
\* error and a single-slot task has none.
Step3 ==
    IF use_horovod THEN "horovod"
    ELSE IF use_deepspeed THEN "deepspeed"
    ELSE IF use_torch THEN "torch"
    ELSE IF n_addrs > 1 \/ n_slots > 1 THEN "ValueError"
    ELSE None

\* core.DistributedContext.from_horovod / from_deepspeed / from_torch_distributed
FromBackend(d) == Ev("core.DistributedContext", "returned", d)

BuildDistributedContext ==
    /\ hpc = "distributed"
    /\ IF Step3 = "ValueError"
       THEN /\ exc' = "ValueError"
            /\ hpc' = "exit_stacktraces"
            /\ distributed' = None
            /\ hlog' = hlog
       ELSE IF Step3 = None
       THEN /\ distributed' = None
            /\ hpc' = "core_init"
            /\ UNCHANGED <<hlog, exc>>
       ELSE \E ok \in BOOLEAN :
            /\ hlog' = Append(hlog, [FromBackend(Step3) EXCEPT
                                        !.status = IF ok THEN "returned" ELSE "raised"])
            /\ distributed' = IF ok THEN Step3 ELSE None
            /\ hpc' = IF ok THEN "core_init" ELSE "exit_stacktraces"
            /\ exc' = IF ok THEN exc ELSE "Error"
    /\ UNCHANGED <<info_vars, path, dump_scheduled, core_open, pytorch_open, result>>
    /\ UNCHANGED <<auth_vars, file_vars>>

CoreInitNotKeptOpen(ok) == FALSE

\* with core.init(...) as core_context: the block is entered when core.init
\* returned.
CoreInitEntered(ok) == ok

\* Step 4: with core.init(distributed=distributed, ...) as core_context
CoreInit ==
    /\ hpc = "core_init"
    /\ \E ok \in BOOLEAN :
          /\ hlog' = Append(hlog, Ev("core.init", IF ok THEN "returned" ELSE "raised",
                                     distributed))
          /\ core_open' = CoreInitEntered(ok)
          /\ hpc' = IF ok THEN "trial_context" ELSE "exit_stacktraces"
          /\ exc' = IF ok THEN exc ELSE "Error"
    /\ UNCHANGED <<info_vars, path, dump_scheduled, pytorch_open, distributed, result>>
    /\ UNCHANGED <<auth_vars, file_vars>>

\* trial_context = trial_class.trial_context_class(core_context, env)
BuildTrialContext ==
    /\ Step("trial_context", "trial_class.trial_context_class", None, "trial",
            "exit_core")
    /\ UNCHANGED <<info_vars, path, dump_scheduled, core_open, pytorch_open,
                   distributed, result>>
    /\ UNCHANGED <<auth_vars, file_vars>>

\* trial_inst = trial_class(trial_context)
InstantiateTrial ==
    /\ Step("trial", "trial_class", None, "from_trial", "exit_core")
    /\ UNCHANGED <<info_vars, path, dump_scheduled, core_open, pytorch_open,
                   distributed, result>>
    /\ UNCHANGED <<auth_vars, file_vars>>

\* Step 5: controller = controller_class.from_trial(...)
FromTrial ==
    /\ Step("from_trial", "controller_class.from_trial", None, "run", "exit_core")
    /\ UNCHANGED <<info_vars, path, dump_scheduled, core_open, pytorch_open,
                   distributed, result>>
    /\ UNCHANGED <<auth_vars, file_vars>>

\* controller.run()
ControllerRun ==
    /\ Step("run", "controller.run", None, "exit_core", "exit_core")
    /\ UNCHANGED <<info_vars, path, dump_scheduled, core_open, pytorch_open,
                   distributed, result>>
    /\ UNCHANGED <<auth_vars, file_vars>>

\* The with core.init(...) block is left, by its end or by an exception.
ExitCoreInit ==
    /\ hpc = "exit_core"
    /\ core_open' = FALSE
    /\ hlog' = Append(hlog, Ev("core.init.__exit__", "returned", None))
    /\ hpc' = "exit_stacktraces"
    /\ UNCHANGED <<info_vars, path, dump_scheduled, pytorch_open, distributed, exc,
                   result>>
    /\ UNCHANGED <<auth_vars, file_vars>>

CancelOnlyWithoutException == debug /\ exc = None

\* finally: if debug_enabled: faulthandler.cancel_dump_traceback_later()
CancelOnExit == debug

\* maybe_periodic_stacktraces after its yield: the block is left, by its end
\* or by an exception.
ExitStacktraces ==
    /\ hpc = "exit_stacktraces"
    /\ dump_scheduled' = (dump_scheduled /\ ~CancelOnExit)
    /\ hlog' = IF CancelOnExit
               THEN Append(hlog, Ev("faulthandler.cancel_dump_traceback_later",
                                    "returned", None))
               ELSE hlog
    /\ hpc' = "end"
    /\ UNCHANGED <<info_vars, path, core_open, pytorch_open, distributed, exc,
                   result>>
    /\ UNCHANGED <<auth_vars, file_vars>>

\* return 0, or the exception leaves main.
MainEnd ==
    /\ hpc = "end"
    /\ result' = IF exc = None THEN "returned 0" ELSE exc
    /\ hpc' = "done"
    /\ UNCHANGED <<info_vars, path, hlog, dump_scheduled, core_open, pytorch_open,
                   distributed, exc>>
    /\ UNCHANGED <<auth_vars, file_vars>>

\* ---------------------------------------------------- _run_pytorch_trial

\* with pytorch.init(hparams=..., exp_conf=..., aggregation_frequency=...)
PytorchInit ==
    /\ hpc = "pytorch_init"
    /\ \E ok \in BOOLEAN :
          /\ hlog' = Append(hlog, Ev("pytorch.init",
                                     IF ok THEN "returned" ELSE "raised", None))
          /\ pytorch_open' = ok
          /\ hpc' = IF ok THEN "pytorch_defaults" ELSE "exit_stacktraces"
          /\ exc' = IF ok THEN exc ELSE "Error"
    /\ UNCHANGED <<info_vars, path, dump_scheduled, core_open, distributed, result>>
    /\ UNCHANGED <<auth_vars, file_vars>>

\* train_context._set_default_gradient_compression(...),
\* _set_default_average_aggregated_gradients(...), _set_is_pre_trainer()
PytorchDefaults ==
    /\ Step("pytorch_defaults", "train_context._set_defaults", None, "pytorch_trial",
            "exit_pytorch")
    /\ UNCHANGED <<info_vars, path, dump_scheduled, core_open, pytorch_open,
                   distributed, result>>
    /\ UNCHANGED <<auth_vars, file_vars>>

\* trial_inst = trial_class(train_context)
PytorchInstantiateTrial ==
    /\ Step("pytorch_trial", "trial_class", None, "trainer", "exit_pytorch")
    /\ UNCHANGED <<info_vars, path, dump_scheduled, core_open, pytorch_open,
                   distributed, result>>
    /\ UNCHANGED <<auth_vars, file_vars>>

\* trainer = pytorch.Trainer(trial_inst, train_context)
BuildTrainer ==
    /\ Step("trainer", "pytorch.Trainer", None, "profiler", "exit_pytorch")
    /\ UNCHANGED <<info_vars, path, dump_scheduled, core_open, pytorch_open,
                   distributed, result>>
    /\ UNCHANGED <<auth_vars, file_vars>>

\* trainer.configure_profiler(...)
ConfigureProfiler ==
    /\ Step("profiler", "trainer.configure_profiler", None, "fit", "exit_pytorch")
    /\ UNCHANGED <<info_vars, path, dump_scheduled, core_open, pytorch_open,
                   distributed, result>>
    /\ UNCHANGED <<auth_vars, file_vars>>

\* trainer.fit(..., test_mode=False)
TrainerFit ==
    /\ Step("fit", "trainer.fit", "test_mode=False", "exit_pytorch", "exit_pytorch")
    /\ UNCHANGED <<info_vars, path, dump_scheduled, core_open, pytorch_open,
                   distributed, result>>
    /\ UNCHANGED <<auth_vars, file_vars>>

\* The with pytorch.init(...) block is left, by its end or by an exception.
ExitPytorchInit ==
    /\ hpc = "exit_pytorch"
    /\ pytorch_open' = FALSE
    /\ hlog' = Append(hlog, Ev("pytorch.init.__exit__", "returned", None))
    /\ hpc' = "exit_stacktraces"
    /\ UNCHANGED <<info_vars, path, dump_scheduled, core_open, distributed, exc,
                   result>>
    /\ UNCHANGED <<auth_vars, file_vars>>

NextHarness ==
    \/ MainStart
    \/ LoadCerts
    \/ LoadTrialClass
    \/ SendAnalytics
    \/ Dispatch
    \/ BuildEnvContext
    \/ SetLogger
    \/ EnterStacktraces
    \/ GetTrialControllerClass
    \/ PreExecuteHook
    \/ BuildDistributedContext
    \/ CoreInit
    \/ BuildTrialContext
    \/ InstantiateTrial
    \/ FromTrial
    \/ ControllerRun
    \/ ExitCoreInit
    \/ ExitStacktraces
    \/ MainEnd
    \/ PytorchInit
    \/ PytorchDefaults
    \/ PytorchInstantiateTrial
    \/ BuildTrainer
    \/ ConfigureProfiler
    \/ TrainerFit
    \/ ExitPytorchInit

SpecHarness == InitHarness /\ [][NextHarness]_vars

\* ------------------------------------------------------------------ claims

\* Authentication has been constructed: auth.session is set.
LoginBuilt == test = "login" /\ pc \in {"assert", "done"}

\* The user the scenario resolves to: requested, else DET_USER with DET_PASS,
\* else the cache's active user, else the default user.
ResolvedUser ==
    IF req_user # None THEN req_user
    ELSE IF env_user # None /\ env_pass # None THEN env_user
    ELSE IF store0.active # None THEN store0.active
    ELSE "determined"

\* The validity-check and do_login calls, in order.
IsCheckOrLogin(c) == c.op \in {"Check", "DoLogin"}
ChecksAndLogins == SelectSeq(calls, IsCheckOrLogin)
CountOp(op) == Cardinality({i \in 1..Len(calls) : calls[i].op = op})
LoginWithPassword(p) ==
    \E i \in 1..Len(calls) : calls[i].op = "DoLogin" /\ calls[i].b = p

\* C1: whenever the cache holds the valid token for the resolved user, the
\* cached token is validity-checked, the session is (resolved user, cached
\* token), do_login is not called and DET_USER_TOKEN is not the session token,
\* whatever the other five inputs are.
C1_ValidCacheWins ==
    (LoginBuilt /\ cache = "cache") =>
        /\ HasCall(Check("cache"))
        /\ session = UsernameTokenPair(ResolvedUser, "cache")
        /\ ~HasOp("DoLogin")
        /\ session.token # env_token
        /\ ~HasCall(Check("env_token"))

C1_Witness ==
    /\ LoginBuilt /\ cache = "cache"
    /\ env_user = "extra" /\ env_pass # None /\ env_token # None
    /\ session = UsernameTokenPair("extra", "cache")

\* The scenario has DET_USER and DET_USER_TOKEN set and requests no other user.
C2_Region ==
    /\ env_user # None /\ env_token # None
    /\ req_user \in {None, env_user}
    /\ cache # "cache"

\* C2: with DET_USER and DET_USER_TOKEN set, the requested user absent or
\* equal to DET_USER, and no valid cached token (missing or expired), the
\* session is (DET_USER, DET_USER_TOKEN), do_login is not called and
\* DET_USER_TOKEN is never validity-checked.
C2_EnvTokenUsed ==
    (LoginBuilt /\ C2_Region) =>
        /\ session = UsernameTokenPair(env_user, env_token)
        /\ ~HasOp("DoLogin")
        /\ ~HasCall(Check(env_token))

C2_Witness ==
    /\ LoginBuilt /\ C2_Region
    /\ req_user = None /\ env_user = "extra" /\ env_pass = None
    /\ cache = "expired"
    /\ HasCall(Check("expired"))
    /\ session = UsernameTokenPair("extra", "env_token")

\* A user is requested, the cache has no valid token and DET_USER_TOKEN is not
\* usable (unset, or DET_USER unset or another user).
C3_Region ==
    /\ req_user # None
    /\ cache # "cache"
    /\ env_token = None \/ env_user = None \/ env_user # req_user

\* C3: in that region do_login is called, once, with the requested user and
\* the requested password if given, else the prompted password; DET_PASS is
\* never the password of a do_login call.
C3_RequestedUserLogsIn ==
    (LoginBuilt /\ C3_Region) =>
        /\ HasCall(DoLogin(req_user,
                           IF req_pass # None THEN req_pass ELSE "prompt_pass"))
        /\ CountOp("DoLogin") = 1
        /\ HasOp("getpass") <=> req_pass = None
        /\ env_pass # None => ~LoginWithPassword(env_pass)

C3_Witness ==
    /\ LoginBuilt /\ C3_Region
    /\ req_pass = None /\ env_user = req_user /\ env_pass # None
    /\ HasCall(DoLogin("user", "prompt_pass"))

\* Nothing requested as user; DET_USER and DET_PASS set, DET_USER_TOKEN unset.
C4_Region ==
    /\ req_user = None
    /\ env_user # None /\ env_pass # None
    /\ env_token = None

\* C4: in that region the session user is DET_USER; without a valid cached
\* token do_login is called with (DET_USER, DET_PASS) and its token is the
\* session's; the password is never prompted for, even if one was requested.
C4_EnvUserAndPass ==
    (LoginBuilt /\ C4_Region) =>
        /\ session.username = env_user
        /\ cache # "cache" =>
              /\ HasCall(DoLogin(env_user, env_pass))
              /\ CountOp("DoLogin") = 1
              /\ session.token = "new"
        /\ ~HasOp("getpass")
        /\ ~LoginWithPassword("prompt_pass")

C4_Witness ==
    /\ LoginBuilt /\ C4_Region
    /\ req_pass # None /\ env_user = "extra" /\ cache = "expired"
    /\ HasCall(DoLogin("extra", "env_pass"))

\* Nothing requested, and neither DET_PASS nor DET_USER_TOKEN set.
C5_Region ==
    /\ req_user = None /\ req_pass = None
    /\ env_pass = None /\ env_token = None

\* C5: in that region the validity-check and do_login calls and the session
\* are the same for every DET_USER: with an empty cache do_login("determined",
\* ""), with an expired cache a login of the cache's active user with the
\* prompted password, with a valid cache the cached token.
C5_DetUserAloneIgnored ==
    (LoginBuilt /\ C5_Region) =>
        /\ cache = None =>
              /\ ChecksAndLogins = <<DoLogin("determined", "")>>
              /\ session = UsernameTokenPair("determined", "new")
        /\ cache = "expired" =>
              /\ ChecksAndLogins = <<Check("expired"), DoLogin("user", "prompt_pass")>>
              /\ HasOp("getpass")
              /\ session = UsernameTokenPair("user", "new")
        /\ cache = "cache" =>
              /\ ChecksAndLogins = <<Check("cache")>>
              /\ session = UsernameTokenPair("user", "cache")

C5_Witness ==
    /\ LoginBuilt /\ C5_Region
    /\ env_user = "extra" /\ cache = "expired"
    /\ session = UsernameTokenPair("user", "new")

\* Only a password is requested; no environment, no cache.
C6_Region ==
    /\ req_user = None /\ req_pass # None
    /\ env_user = None /\ env_pass = None /\ env_token = None
    /\ cache = None

\* C6: with only a password requested the user is the default "determined"
\* and do_login is called with ("determined", requested password), not with
\* the empty default password and without a prompt.
C6_PasswordOnly ==
    (LoginBuilt /\ C6_Region) =>
        /\ ChecksAndLogins = <<DoLogin("determined", req_pass)>>
        /\ ~LoginWithPassword("")
        /\ ~HasOp("getpass")
        /\ session = UsernameTokenPair("determined", "new")

C6_Witness ==
    /\ LoginBuilt /\ C6_Region
    /\ HasCall(DoLogin("determined", "req_pass"))

\* C7: a cached token that fails the validity check is never the session's
\* token: it is checked before anything else, the session token is then
\* DET_USER_TOKEN when that is usable and otherwise do_login's token, and a
\* do_login call comes only after the check.
C7_ExpiredNeverUsed ==
    (LoginBuilt /\ cache = "expired") =>
        /\ session.token # "expired"
        /\ ChecksAndLogins # <<>> /\ Head(ChecksAndLogins) = Check("expired")
        /\ IF env_user # None /\ env_token # None /\ req_user \in {None, env_user}
           THEN session.token = env_token /\ ~HasOp("DoLogin")
           ELSE /\ session.token = "new"
                /\ HasOp("DoLogin")
        /\ \A i \in 1..Len(calls) :
              calls[i].op = "DoLogin" =>
                  \E j \in 1..(i - 1) : calls[j] = Check("expired")

C7_Witness ==
    /\ LoginBuilt /\ cache = "expired"
    /\ Before(Check("expired"), DoLogin("user", "req_pass"))
    /\ session = UsernameTokenPair("user", "new")

LoginStep ==
    \/ LoginLoadUser
    \/ LoginGetToken
    \/ LoginCheckToken
    \/ LoginUseEnvToken
    \/ LoginDoLogin

LogoutUser ==
    IF req_user # None THEN req_user
    ELSE IF env_user # None /\ env_pass # None THEN env_user
    ELSE store0.active

LogoutReturned == test = "logout" /\ pc \in {"assert", "done"}

\* C9: logout chooses the requested user if given, whatever DET_USER is, else
\* DET_USER when DET_USER and DET_PASS are set, else the cache's active user;
\* the active user is asked for only when neither of the first two exists.
C9_LogoutPrecedence ==
    (test = "logout" /\ pc # "start") =>
        /\ session_user = LogoutUser
        /\ HasCall(GetActiveUser) =>
              req_user = None /\ (env_user = None \/ env_pass = None)

C9_Witness ==
    /\ LogoutReturned
    /\ req_user = None /\ env_user # None /\ env_pass # None
    /\ store0.active = "cache_user"
    /\ session_user = "env_user"
    /\ ~HasCall(GetActiveUser)

\* C10: the logout request, with the chosen user's cached token as Bearer, is
\* sent and the user dropped from the token cache exactly when the cache holds
\* a token for the chosen user; otherwise (no user, or no token for the user)
\* no request is sent and the token cache is unchanged.
C10_LogoutEffect ==
    LogoutReturned =>
        IF LogoutUser # None /\ get_token(store0, LogoutUser) # None
        THEN /\ SelectSeq(calls, IsRequest)
                    = <<PostLogout(get_token(store0, LogoutUser))>>
             /\ HasCall(DropUser(LogoutUser))
             /\ store.tokens = [store0.tokens EXCEPT ![LogoutUser] = None]
        ELSE /\ ~HasOp(PostLogout(None).op)
             /\ ~HasOp("drop_user")
             /\ store = store0

C10_Witness ==
    /\ LogoutReturned
    /\ req_user = "req_user"
    /\ get_token(store0, "req_user") = "cache_token"
    /\ get_token(store, "req_user") = None
    /\ get_token(store, "cache_user") = "cache_token"
    /\ HasCall(PostLogout("cache_token"))

C10_WitnessNoop ==
    /\ LogoutReturned
    /\ req_user = "req_user"
    /\ get_token(store0, "req_user") = None
    /\ get_token(store0, "cache_user") = "cache_token"
    /\ store = store0
    /\ ~HasOp(PostLogout(None).op)

\* The token of the last set_token call for user u, None if there was none.
LastWritten(u) ==
    LET is == {i \in 1..Len(written) : written[i][1] = u} IN
        IF is = {} THEN None
        ELSE written[CHOOSE i \in is : \A j \in is : j <= i][2]

\* C11: a TokenStore opened on a version 0 auth.json reports the active user
\* and the tokens stored in that file; after set_token(user, t) a newly
\* constructed TokenStore on the same file and master returns t for user, and
\* the file is then version 1 with "masters" holding exactly one key, the
\* master URL.
C11_V0Upgrade ==
    /\ (fpc = "opened" /\ written = <<>>) =>
          /\ Get(auth_json, "version", 0) = 0
          /\ TokenStore_get_active_user(ts) = Get(auth_json, "active_user", None)
          /\ \A u \in FileUsers :
                TokenStore_get_token(ts, u) = Get(auth_json.tokens, u, None)
    /\ fpc = "reopened" =>
          /\ \A u \in FileUsers :
                LastWritten(u) # None => TokenStore_get_token(ts2, u) = LastWritten(u)
          /\ Get(auth_json, "version", 0) = 1
          /\ DOMAIN Get(auth_json, "masters", EmptyDict) = {master}

C11_Witness ==
    /\ fpc = "reopened"
    /\ master = MOCK_MASTER_URL
    /\ TokenStore_get_active_user(ts2) = "determined"
    /\ written = << <<"determined", "ai">> >>
    /\ TokenStore_get_token(ts2, "determined") = "ai"
    /\ TokenStore_get_token(ts2, "bob") = "bob.token"

\* ------------------------------------------------------ harness main claims

\* The positions in hlog of the calls of op.
Idx(op) == {i \in 1..Len(hlog) : hlog[i].op = op}

Called(op) == Idx(op) # {}

Returned(op) == \E i \in Idx(op) : hlog[i].status = "returned"

\* Every call of b was made after a call of a had returned without error.
ReturnedBefore(a, b) ==
    \A j \in Idx(b) : \E i \in Idx(a) : i < j /\ hlog[i].status = "returned"

\* The trial class is not run by _run_pytorch_trial.
NotPytorchPath == path # "pytorch"

Backends == {"horovod", "deepspeed", "torch"}

\* controller.run executes in the open core context, and main returns 0 only
\* after controller.run returned.
RunInsideCore ==
    /\ \A i \in Idx("controller.run") : hlog[i].core
    /\ (hpc = "run") => core_open
    /\ result = "returned 0" => Returned("controller.run")

\* C12: for a trial class that is not a PyTorchTrial the calls happen in the
\* order load the trial class, get the controller class, pre_execute_hook,
\* build the DistributedContext (Step 3), enter core.init, build the trial
\* context, instantiate the Trial, from_trial, controller.run, each made at
\* most once and only after the previous one returned without error. Step 3
\* has completed when core.init starts: with the horovod, deepspeed or torch
\* backend in use the DistributedContext constructor has returned and
\* core.init receives its result, and without a backend Step 3 makes no call
\* and core.init receives None. controller.run executes while the core
\* context is open and main returns 0 only after controller.run returned.
C12_CallOrder ==
    NotPytorchPath =>
      /\ ReturnedBefore("load.trial_class_from_entrypoint",
                        "load.get_trial_controller_class")
      /\ ReturnedBefore("load.get_trial_controller_class",
                        "controller_class.pre_execute_hook")
      /\ ReturnedBefore("controller_class.pre_execute_hook", "core.DistributedContext")
      /\ ReturnedBefore("controller_class.pre_execute_hook", "core.init")
      /\ \A j \in Idx("core.init") :
            /\ distributed # "unset"
            /\ hlog[j].arg = distributed
            /\ IF Step3 \in Backends
               THEN /\ hlog[j].arg = Step3
                    /\ \E i \in Idx("core.DistributedContext") :
                          i < j /\ hlog[i].status = "returned" /\ hlog[i].arg = Step3
               ELSE /\ hlog[j].arg = None
                    /\ ~Called("core.DistributedContext")
      /\ Called("core.DistributedContext") => Step3 \in Backends
      /\ ReturnedBefore("core.init", "trial_class.trial_context_class")
      /\ ReturnedBefore("trial_class.trial_context_class", "trial_class")
      /\ ReturnedBefore("trial_class", "controller_class.from_trial")
      /\ ReturnedBefore("controller_class.from_trial", "controller.run")
      /\ \A op \in {"load.trial_class_from_entrypoint",
                    "load.get_trial_controller_class",
                    "controller_class.pre_execute_hook", "core.DistributedContext",
                    "core.init", "trial_class.trial_context_class", "trial_class",
                    "controller_class.from_trial", "controller.run"} :
            Cardinality(Idx(op)) <= 1
      /\ RunInsideCore

C12_Witness ==
    /\ path = "legacy"
    /\ result = "returned 0"
    /\ distributed = "deepspeed"
    /\ Returned("core.DistributedContext")
    /\ Returned("controller.run")

NoBackend == ~use_horovod /\ ~use_deepspeed /\ ~use_torch

\* More than one container address or more than one slot id.
MultiSlot == n_addrs > 1 \/ n_slots > 1

\* The user's Trial is never instantiated and training never runs.
NothingTrained ==
    /\ ~Called("core.init")
    /\ ~Called("trial_class")
    /\ ~Called("controller.run")
    /\ ~Called("trainer.fit")
    /\ result # "returned 0"

\* main went past Step 3 without an earlier call raising.
ReachedStep3 == Returned("controller_class.pre_execute_hook") /\ hpc # "distributed"

\* C13 as stated: in every multi-slot task with no backend in use, whatever
\* the trial class, the Trial is never instantiated, training never runs and
\* main does not return 0.
C13_AsStated ==
    /\ (NoBackend /\ MultiSlot) =>
          /\ NothingTrained
          /\ ReachedStep3 => exc = "ValueError"
    /\ (NoBackend /\ ~MultiSlot) =>
          \A j \in Idx("core.init") : hlog[j].arg = None

\* C13: for a trial class that is not a PyTorchTrial, in every multi-slot
\* task with no backend in use main raises ValueError once
\* pre_execute_hook has returned, before core.init is entered, so the Trial
\* is never instantiated and training never runs; in a single-slot task
\* with no backend core.init is entered, unless an earlier call raised, with
\* distributed=None.
C13_MultiSlotRejected ==
    NotPytorchPath =>
      /\ (NoBackend /\ MultiSlot) =>
            /\ NothingTrained
            /\ ReachedStep3 => exc = "ValueError"
            /\ hpc = "done" => result \in {"ValueError", "Error", "AssertionError"}
            /\ (hpc = "done" /\ ReachedStep3) => result = "ValueError"
      /\ (NoBackend /\ ~MultiSlot) =>
            /\ \A j \in Idx("core.init") : hlog[j].arg = None
            /\ ~Called("core.DistributedContext")
            /\ exc # "ValueError"
            /\ (ReachedStep3 /\ hpc # "core_init") => Called("core.init")

C13_Witness ==
    /\ path = "legacy"
    /\ NoBackend
    /\ n_addrs = 1
    /\ n_slots = 2
    /\ hpc = "done"
    /\ result = "ValueError"
    /\ Returned("controller_class.pre_execute_hook")
    /\ ~Called("core.init")

LegacyOnlyCalls ==
    {"det.EnvContext", "load.get_trial_controller_class",
     "controller_class.pre_execute_hook", "core.DistributedContext", "core.init",
     "trial_class.trial_context_class", "controller_class.from_trial",
     "controller.run"}

PytorchOnlyCalls ==
    {"pytorch.init", "train_context._set_defaults", "pytorch.Trainer",
     "trainer.configure_profiler", "trainer.fit"}

\* The trial class is a PyTorchTrial subclass and the pytorch module is
\* available.
IsPytorchTrial == has_pytorch /\ is_pytorch_trial

\* C14: main dispatches each trial to exactly one execution path. For a
\* PyTorchTrial subclass with the pytorch module available only
\* _run_pytorch_trial runs: pytorch.init, Trial instantiation, Trainer
\* construction, configure_profiler, Trainer.fit in that order, each after
\* the previous one returned, Trainer.fit at most once, exactly once when
\* main returns 0, and with test_mode False; no EnvContext, pre_execute_hook,
\* core.init or TrialController is used. Otherwise only the legacy
\* controller path runs and Trainer.fit is never called.
C14_OnePath ==
    /\ path = "pytorch" => IsPytorchTrial
    /\ path = "legacy" => ~IsPytorchTrial
    /\ IsPytorchTrial =>
          /\ \A op \in LegacyOnlyCalls : ~Called(op)
          /\ ~core_open
          /\ ReturnedBefore("pytorch.init", "trial_class")
          /\ ReturnedBefore("trial_class", "pytorch.Trainer")
          /\ ReturnedBefore("pytorch.Trainer", "trainer.configure_profiler")
          /\ ReturnedBefore("trainer.configure_profiler", "trainer.fit")
          /\ \A op \in PytorchOnlyCalls \cup {"trial_class"} : Cardinality(Idx(op)) <= 1
          /\ \A i \in Idx("trainer.fit") : hlog[i].arg = "test_mode=False"
          /\ result = "returned 0" =>
                Cardinality({i \in Idx("trainer.fit") : hlog[i].status = "returned"}) = 1
    /\ ~IsPytorchTrial =>
          /\ \A op \in PytorchOnlyCalls : ~Called(op)
          /\ ~pytorch_open
          /\ result = "returned 0" => Returned("controller.run")

C14_Witness ==
    /\ path = "pytorch"
    /\ hpc = "done"
    /\ result = "returned 0"
    /\ Returned("trainer.fit")
    /\ n_slots = 2

\* main has entered the maybe_periodic_stacktraces block.
EnteredStacktraces == Called("det.common.set_logger") /\ hpc # "enter_stacktraces"

\* main has left the maybe_periodic_stacktraces block.
LeftStacktraces == EnteredStacktraces /\ hpc \in {"end", "done"}

\* C15: the periodic traceback dump is scheduled on entering the
\* maybe_periodic_stacktraces block if and only if debug is enabled, and it
\* is cancelled when the block is left, on normal completion and when the
\* body raises; with debug disabled it is neither scheduled nor cancelled.
\* After main or _run_pytorch_trial ended in any way no dump is scheduled.
C15_DumpCancelled ==
    /\ Called("faulthandler.dump_traceback_later") <=> (debug /\ EnteredStacktraces)
    /\ Called("faulthandler.cancel_dump_traceback_later") <=> (debug /\ LeftStacktraces)
    /\ Cardinality(Idx("faulthandler.dump_traceback_later")) <= 1
    /\ Cardinality(Idx("faulthandler.cancel_dump_traceback_later")) <= 1
    /\ dump_scheduled <=> (debug /\ EnteredStacktraces /\ ~LeftStacktraces)
    /\ hpc \in {"end", "done"} => ~dump_scheduled

C15_Witness ==
    /\ debug
    /\ hpc = "done"
    /\ result = "Error"
    /\ \E i \in Idx("controller.run") : hlog[i].status = "raised"
    /\ Called("faulthandler.dump_traceback_later")
    /\ Called("faulthandler.cancel_dump_traceback_later")
    /\ ~dump_scheduled

====
